---- MODULE Spec2Model ----
(***************************************************************************)
(* Stablecoin peg monitor: the Chainlink price fetch, the two loaders that *)
(* append the samples to CHAINLINK_PRICES, the schema set-up script, the   *)
(* derived view stablecoin_peg_health and table stablecoin_peg_zscore, the *)
(* continuous fetch loop, and the two pages of the Streamlit dashboard.    *)
(*                                                                         *)
(* Numbers.  A price is a fixed-point number of PriceScale units per       *)
(* dollar, so 1.0 is PriceScale and 0.001 is PriceScale \div 1000.  The    *)
(* rolling mean is the exact fraction sum/count; the rolling standard      *)
(* deviation and the z-score are kept as a sign and the fraction under the *)
(* square root, so every comparison the SQL makes is decided exactly.      *)
(***************************************************************************)
EXTENDS Integers, Sequences, FiniteSets, Bags, TLC

VARIABLES
    now,                    \* the wall clock, in whole seconds (datetime.now)
    table_exists,           \* CHAINLINK_PRICES has been created
    CHAINLINK_PRICES,       \* the raw table: a bag of rows
    stablecoin_peg_health,  \* which statement last defined the view
    stablecoin_peg_zscore,  \* the derived table: [exists, rows]
    pc,                     \* each process's position
    idx,                    \* each fetch's position in TOKEN_SYMBOLS
    all_data,               \* each fetch's list of price records
    df,                     \* each process's DataFrame
    exc,                    \* the exception a process ended with
    call,                   \* each process's last fetch_token_price call
    ret,                    \* what a finished process returned or printed
    fetch_count,            \* fetch_continuously: attempts started
    interval_seconds,       \* fetch_continuously: its argument
    slept,                  \* fetch_continuously: sleeps since the last attempt
    failures,               \* fetch_continuously: consecutive failed attempts
    interrupts,             \* fetch_continuously: Ctrl+C presses delivered
    dashboard,              \* streamlit_app: what the page last rendered shows
    ctas                    \* the result of each loader's running CREATE TABLE AS

vars == <<now, table_exists, CHAINLINK_PRICES, stablecoin_peg_health,
          stablecoin_peg_zscore, pc, idx, all_data, df, exc, call, ret,
          fetch_count, interval_seconds, slept, failures, interrupts, dashboard, ctas>>

warehouse == <<table_exists, CHAINLINK_PRICES, stablecoin_peg_health,
               stablecoin_peg_zscore>>
loopvars == <<fetch_count, interval_seconds, slept, failures, interrupts>>

(***************************************************************************)
(* Bounds of the model.                                                    *)
(***************************************************************************)
MaxRows == 3        \* rows CHAINLINK_PRICES may hold (Spec, SpecLoop)
MaxStatRows == 6    \* rows CHAINLINK_PRICES may hold (SpecStats)
MaxFetches == 3     \* attempts fetch_continuously may start
MaxInterrupts == 2  \* Ctrl+C presses fetch_continuously may receive

(***************************************************************************)
(* Configuration of scripts/fetch_chainlink_price.py.                      *)
(***************************************************************************)
TOKEN_SYMBOLS == <<"USDC", "USDT">>
CHAINLINK_FEEDS == [USDC |-> "0x8fFfFfd4AfB6115b954Bd326cbe7B4BA576818f6",
                    USDT |-> "0x3E7d1eAB13ad0104d2750B8863b489D65364e32D"]
Tokens == {TOKEN_SYMBOLS[i] : i \in 1..Len(TOKEN_SYMBOLS)}

PriceScale == 10000
PEG == PriceScale                       \* 1.0
WINDOW_SECONDS == 86400

Pow10(n) == IF n = 0 THEN 1 ELSE IF n = 1 THEN 10 ELSE IF n = 2 THEN 100
            ELSE IF n = 3 THEN 1000 ELSE 10000

(***************************************************************************)
(* fetch_token_price.  A contract call either raises or returns a value.   *)
(***************************************************************************)
Raised == [raised |-> TRUE, value |-> 0]
Returned(v) == [raised |-> FALSE, value |-> v]

None == [none |-> TRUE, timestamp |-> 0, token_symbol |-> "",
         price |-> 0, deviation_from_peg |-> 0]

\* float(answer) / (10 ** decimals), in PriceScale units
PriceFloat(answer, decimals) == (answer * PriceScale) \div Pow10(decimals)

InvalidPriceLt(price_float) == price_float < 0
InvalidPrice(price_float) == price_float <= 0

Deviation(price_float) == price_float - PEG

fetch_token_price(token_symbol, decimals, round_data, t) ==
    IF decimals.raised \/ round_data.raised
    THEN None
    ELSE LET price_float == PriceFloat(round_data.value, decimals.value)
         IN  IF InvalidPrice(price_float)
             THEN None
             ELSE [none |-> FALSE,
                   timestamp |-> t,
                   token_symbol |-> token_symbol,
                   price |-> price_float,
                   deviation_from_peg |-> Deviation(price_float)]

(***************************************************************************)
(* df.sort_values("token_symbol"): a stable insertion sort on the symbol.  *)
(***************************************************************************)
SymbolGeq(a, b) == a = b \/ (a = "USDT" /\ b = "USDC")
SymbolLeq(a, b) == a = b \/ (a = "USDC" /\ b = "USDT")

RECURSIVE InsertSorted(_, _)
InsertSorted(r, s) ==
    IF s = <<>> THEN <<r>>
    ELSE IF SymbolLeq(s[1].token_symbol, r.token_symbol)
         THEN <<s[1]>> \o InsertSorted(r, Tail(s))
         ELSE <<r>> \o s

RECURSIVE sort_values(_)
sort_values(s) ==
    IF s = <<>> THEN <<>>
    ELSE InsertSorted(s[Len(s)], sort_values(SubSeq(s, 1, Len(s) - 1)))


\* pd.DataFrame(all_data)[[...]].sort_values("token_symbol").reset_index()
DataFrame(data) == sort_values(data)

(***************************************************************************)
(* The warehouse.  A table is a bag of rows.  A DOUBLE that may be NULL,   *)
(* or hold a square root, is a record: s * sqrt(n / d), with d > 0; err    *)
(* marks the result of a division by zero, which fails the statement.      *)
(***************************************************************************)
NULL == [null |-> TRUE, err |-> FALSE, s |-> 0, n |-> 0, d |-> 1]
DivisionByZero == [null |-> FALSE, err |-> TRUE, s |-> 0, n |-> 0, d |-> 1]
Zero == [null |-> FALSE, err |-> FALSE, s |-> 0, n |-> 0, d |-> 1]

Sign(x) == IF x > 0 THEN 1 ELSE IF x < 0 THEN -1 ELSE 0

\* the fraction a / b, b > 0, as a DOUBLE
Fraction(a, b) == [null |-> FALSE, err |-> FALSE, s |-> Sign(a), n |-> a * a, d |-> b * b]
\* sqrt(a / b), a >= 0, b > 0
Sqrt(a, b) == [null |-> FALSE, err |-> FALSE, s |-> Sign(a), n |-> a, d |-> b]

IsZero(x) == ~x.null /\ ~x.err /\ x.s = 0

NULLIF_Identity(x, zero) == x
NULLIF(x, zero) == IF x.null \/ x.err THEN x ELSE IF IsZero(x) THEN NULL ELSE x

\* x / y: NULL if either is NULL, an error if y is 0
Divide(x, y) ==
    IF x.err \/ y.err THEN DivisionByZero
    ELSE IF x.null \/ y.null THEN NULL
    ELSE IF IsZero(y) THEN DivisionByZero
    ELSE [null |-> FALSE, err |-> FALSE, s |-> x.s * y.s, n |-> x.n * y.d, d |-> x.d * y.n]

ABS(x) == IF x.null \/ x.err THEN x ELSE [x EXCEPT !.s = IF x.s = 0 THEN 0 ELSE 1]

\* x > k for an integer k >= 0, in SQL's three-valued logic
GreaterThan(x, k) ==
    IF x.err THEN "ERROR"
    ELSE IF x.null THEN "NULL"
    ELSE IF x.s > 0 /\ x.n > k * k * x.d THEN "TRUE" ELSE "FALSE"

\* sums over the rows of a bag
\* the sum of f[r] over the rows r of the bag B that are in rows
RECURSIVE BagSum(_, _, _)
BagSum(B, rows, f) ==
    IF rows = {} THEN 0
    ELSE LET r == CHOOSE x \in rows : TRUE
         IN  B[r] * f[r] + BagSum(B, rows \ {r}, f)

Count(B) == BagSum(B, DOMAIN B, [r \in DOMAIN B |-> 1])

\* the bag of the copies in B of the rows in keep
Where(B, keep) == [r \in keep |-> B[r]]

\* SELECT f[row] FROM B: one output row for every input row
Select(B, f) ==
    LET pairs == {<<r, f[r]>> : r \in DOMAIN B}
        out == {p[2] : p \in pairs}
    IN  [y \in out |->
            BagSum(B, {p[1] : p \in {q \in pairs : q[2] = y}},
                   [r \in DOMAIN B |-> 1])]

Row(t, token, price, deviation, loaded_at) ==
    [TIMESTAMP |-> t, TOKEN |-> token, PRICE |-> price,
     DEVIATION_FROM_1 |-> deviation, LOADED_AT |-> loaded_at]

(***************************************************************************)
(* The view stablecoin_peg_health, as the set-up script defines it and as  *)
(* load_real_chainlink_data redefines it.                                  *)
(***************************************************************************)
AbsDeviation(price) == IF price - PEG < 0 THEN PEG - price ELSE price - PEG

HealthyLimit == PriceScale \div 1000          \* 0.001
WarningLimit == (5 * PriceScale) \div 1000    \* 0.005

PegStatusStrict(price) ==
    IF AbsDeviation(price) < HealthyLimit THEN "healthy"
    ELSE IF AbsDeviation(price) < WarningLimit THEN "warning"
    ELSE "critical"

PegStatusSetup(price) ==
    IF AbsDeviation(price) <= HealthyLimit THEN "healthy"
    ELSE IF AbsDeviation(price) <= WarningLimit THEN "warning"
    ELSE "critical"

PegStatusLoader(price) ==
    IF AbsDeviation(price) <= HealthyLimit THEN "healthy"
    ELSE IF AbsDeviation(price) <= WarningLimit THEN "warning"
    ELSE "critical"

PegHealthRowSetup(r) ==
    [TIMESTAMP |-> r.TIMESTAMP, TOKEN |-> r.TOKEN, PRICE |-> r.PRICE,
     DEVIATION_FROM_PEG |-> r.PRICE - PEG,
     ABS_DEVIATION_FROM_PEG |-> AbsDeviation(r.PRICE),
     DEVIATION_FROM_PEG_PCT |-> (r.PRICE - PEG) * 100,
     PEG_STATUS |-> PegStatusSetup(r.PRICE),
     LOADED_AT |-> r.LOADED_AT]

PegHealthRowLoader(r) ==
    [TIMESTAMP |-> r.TIMESTAMP, TOKEN |-> r.TOKEN, PRICE |-> r.PRICE,
     DEVIATION_FROM_PEG |-> r.PRICE - PEG,
     ABS_DEVIATION_FROM_PEG |-> AbsDeviation(r.PRICE),
     DEVIATION_FROM_PEG_PCT |-> (r.PRICE - PEG) * 100,
     PEG_STATUS |-> PegStatusLoader(r.PRICE),
     LOADED_AT |-> r.LOADED_AT]

\* SELECT * FROM stablecoin_peg_health, for the definition in force
PegHealth(definition, prices) ==
    IF definition = "setup"
    THEN Select(prices, [r \in DOMAIN prices |-> PegHealthRowSetup(r)])
    ELSE Select(prices, [r \in DOMAIN prices |-> PegHealthRowLoader(r)])

(***************************************************************************)
(* The table stablecoin_peg_zscore.                                        *)
(***************************************************************************)
\* PARTITION BY TOKEN ORDER BY TIMESTAMP
\* RANGE BETWEEN 86400 PRECEDING AND CURRENT ROW: the rows of the current
\* row's partition whose TIMESTAMP is within the range, its peers included
FrameAllTokens(peg_data, r) ==
    Where(peg_data, {w \in DOMAIN peg_data :
                        /\ w.TIMESTAMP >= r.TIMESTAMP - WINDOW_SECONDS
                        /\ w.TIMESTAMP <= r.TIMESTAMP})
Frame(peg_data, r) ==
    Where(peg_data, {w \in DOMAIN peg_data :
                        /\ w.TOKEN = r.TOKEN
                        /\ w.TIMESTAMP >= r.TIMESTAMP - WINDOW_SECONDS
                        /\ w.TIMESTAMP <= r.TIMESTAMP})

FrameSum(frame) ==
    BagSum(frame, DOMAIN frame, [w \in DOMAIN frame |-> w.DEVIATION_FROM_PEG])
FrameSumSq(frame) ==
    BagSum(frame, DOMAIN frame,
           [w \in DOMAIN frame |-> w.DEVIATION_FROM_PEG * w.DEVIATION_FROM_PEG])

\* AVG(DEVIATION_FROM_PEG) OVER (...): the exact fraction sum / count
AVG(frame) == [num |-> FrameSum(frame), den |-> Count(frame)]

\* STDDEV(DEVIATION_FROM_PEG) OVER (...): the sample standard deviation,
\* NULL over a single row
STDDEV(frame) ==
    LET n == Count(frame)
        sum == FrameSum(frame)
    IN  IF n < 2 THEN NULL
        ELSE Sqrt(n * FrameSumSq(frame) - sum * sum, n * (n - 1))

\* DEVIATION_FROM_PEG - ROLLING_MEAN_24H
MinusMean(deviation, mean) ==
    Fraction(deviation * mean.den - mean.num, mean.den)

\* CASE WHEN ROLLING_STDDEV_24H > 0 THEN (...) / ROLLING_STDDEV_24H ELSE 0 END
ZSCORE(deviation, mean, stddev) ==
    IF GreaterThan(stddev, 0) = "TRUE"
    THEN Divide(MinusMean(deviation, mean), stddev)
    ELSE Zero

AbsZ(deviation, mean, stddev) ==
    ABS(Divide(MinusMean(deviation, mean), NULLIF(stddev, 0)))

\* CASE WHEN ABS(... / NULLIF(ROLLING_STDDEV_24H, 0)) > 2 THEN 'outlier'
\*      WHEN ABS(... / NULLIF(ROLLING_STDDEV_24H, 0)) > 1 THEN 'unusual'
\*      ELSE 'normal' END
ZSCORE_STATUS(deviation, mean, stddev) ==
    LET first == GreaterThan(AbsZ(deviation, mean, stddev), 2)
        second == GreaterThan(AbsZ(deviation, mean, stddev), 1)
    IN  IF first = "ERROR" THEN "ERROR"
        ELSE IF first = "TRUE" THEN "outlier"
        ELSE IF second = "TRUE" THEN "unusual"
        ELSE "normal"

ZscoreRow(peg_data, r) ==
    LET frame == Frame(peg_data, r)
        mean == AVG(frame)
        stddev == STDDEV(frame)
    IN  [TIMESTAMP |-> r.TIMESTAMP, TOKEN |-> r.TOKEN, PRICE |-> r.PRICE,
         DEVIATION_FROM_PEG |-> r.DEVIATION_FROM_PEG,
         ROLLING_MEAN_24H |-> mean,
         ROLLING_STDDEV_24H |-> stddev,
         ZSCORE |-> ZSCORE(r.DEVIATION_FROM_PEG, mean, stddev),
         ZSCORE_STATUS |-> ZSCORE_STATUS(r.DEVIATION_FROM_PEG, mean, stddev)]

\* the SELECT of CREATE OR REPLACE TABLE stablecoin_peg_zscore AS ...
ZscoreSelect(peg_data) ==
    Select(peg_data, [r \in DOMAIN peg_data |-> ZscoreRow(peg_data, r)])

\* a division by zero fails the statement
StatementFails(rows) ==
    \E z \in DOMAIN rows : z.ZSCORE.err \/ z.ZSCORE_STATUS = "ERROR"

(***************************************************************************)
(* Processes.  real1 and real2 are runs of load_real_chainlink_data;       *)
(* "loop" is fetch_continuously, which calls load_real_chainlink_data;     *)
(* "op" is fetch_chainlink_price_op; "setup" is setup_snowflake_schema.    *)
(***************************************************************************)
RealProcs == {"real1", "real2", "loop"}
OpProcs == {"op"}
FetchProcs == RealProcs \cup OpProcs
Procs == FetchProcs \cup {"setup"}

NoCall == [token_symbol |-> "", decimals |-> Raised, round_data |-> Raised,
           result |-> None]
NoRet == [status |-> "", rows |-> 0, total_count |-> 0]

\* the oracle's possible replies
Replies(values) == {Raised} \cup {Returned(v) : v \in values}

(***************************************************************************)
(* fetch_all_chainlink_prices, in the steps at which it reads the outside  *)
(* world: the RPC connection, then one fetch_token_price per symbol.       *)
(***************************************************************************)
\* if not all_data
EmptyCheckAnyMissing(data) == Len(data) < Len(TOKEN_SYMBOLS)
EmptyCheck(data) == data = <<>>

\* get_web3_connection: raises ValueError or ConnectionError, or connects
Connect(p) ==
    /\ pc[p] = "connect"
    /\ \E outcome \in {"ok", "ValueError", "ConnectionError"} :
         IF outcome = "ok"
         THEN /\ pc' = [pc EXCEPT ![p] = "fetch"]
              /\ idx' = [idx EXCEPT ![p] = 1]
              /\ all_data' = [all_data EXCEPT ![p] = <<>>]
              /\ exc' = exc
         ELSE /\ pc' = [pc EXCEPT ![p] = "raised"]
              /\ exc' = [exc EXCEPT ![p] = outcome]
              /\ idx' = [idx EXCEPT ![p] = 1]
              /\ all_data' = [all_data EXCEPT ![p] = <<>>]
    /\ UNCHANGED <<now, warehouse, df, call, ret, loopvars, dashboard, ctas>>

\* the body of the for loop for TOKEN_SYMBOLS[idx[p]] and, after the last
\* symbol, the empty check and the construction of the sorted DataFrame
FetchToken(p, decimals_replies, round_replies) ==
    /\ pc[p] = "fetch"
    /\ idx[p] \in 1..Len(TOKEN_SYMBOLS)
    /\ \E decimals \in decimals_replies, round_data \in round_replies :
         LET token_symbol == TOKEN_SYMBOLS[idx[p]]
             configured == token_symbol \in DOMAIN CHAINLINK_FEEDS
             price_data == IF configured
                           THEN fetch_token_price(token_symbol, decimals, round_data, now)
                           ELSE None
             data == IF price_data.none THEN all_data[p]
                     ELSE Append(all_data[p], price_data)
             last == idx[p] = Len(TOKEN_SYMBOLS)
         IN  /\ call' = [call EXCEPT ![p] =
                           [token_symbol |-> token_symbol, decimals |-> decimals,
                            round_data |-> round_data, result |-> price_data]]
             /\ idx' = [idx EXCEPT ![p] = idx[p] + 1]
             /\ all_data' = [all_data EXCEPT ![p] = data]
             /\ IF ~last
                THEN UNCHANGED <<pc, df, exc>>
                ELSE IF EmptyCheck(data)
                THEN /\ exc' = [exc EXCEPT ![p] = "RuntimeError"]
                     /\ pc' = [pc EXCEPT ![p] = "raised"]
                     /\ df' = df
                ELSE /\ df' = [df EXCEPT ![p] = DataFrame(data)]
                     /\ pc' = [pc EXCEPT ![p] = "fetched"]
                     /\ exc' = exc
    /\ UNCHANGED <<now, warehouse, ret, loopvars, dashboard, ctas>>


\* the clock moves on to a later instant
Tick(instants) ==
    /\ \E t \in instants : t > now /\ now' = t
    /\ UNCHANGED <<warehouse, pc, idx, all_data, df, exc, call, ret, loopvars, dashboard, ctas>>

(***************************************************************************)
(* write_pandas(conn, df, table_name='CHAINLINK_PRICES', overwrite=False)  *)
(* appends one row per row of df; LOADED_AT takes its default.             *)
(***************************************************************************)
RECURSIVE SeqToBag(_)
SeqToBag(rows) ==
    IF rows = <<>> THEN EmptyBag
    ELSE SetToBag({rows[1]}) (+) SeqToBag(Tail(rows))

UpsertRows(table, rows) ==
    LET key(r) == <<r.TIMESTAMP, r.TOKEN>>
        fresh == SelectSeq(rows, LAMBDA r : \A x \in DOMAIN table : key(x) # key(r))
    IN  table (+) SeqToBag(fresh)
AppendRows(table, rows) == table (+) SeqToBag(rows)

\* load_real_chainlink_data: rename, select and relabel the columns
RenameRealSwapped(r) ==
    [TIMESTAMP |-> r.timestamp, TOKEN |-> r.token_symbol,
     PRICE |-> r.deviation_from_peg, DEVIATION_FROM_1 |-> r.price]
RenameReal(r) ==
    [TIMESTAMP |-> r.timestamp, TOKEN |-> r.token_symbol,
     PRICE |-> r.price, DEVIATION_FROM_1 |-> r.deviation_from_peg]

\* fetch_chainlink_price_op: rename two columns
RenameOp(r) ==
    [timestamp |-> r.timestamp, token |-> r.token_symbol,
     price |-> r.price, deviation_from_1 |-> r.deviation_from_peg]

RealRows(frame, t) ==
    [i \in 1..Len(frame) |->
        LET r == RenameReal(frame[i])
        IN  Row(r.TIMESTAMP, r.TOKEN, r.PRICE, r.DEVIATION_FROM_1, t)]
OpRowsFirstOnly(frame, t) ==
    [i \in 1..1 |->
        LET r == RenameOp(frame[i])
        IN  Row(r.timestamp, r.token, r.price, r.deviation_from_1, t)]
OpRows(frame, t) ==
    [i \in 1..Len(frame) |->
        LET r == RenameOp(frame[i])
        IN  Row(r.timestamp, r.token, r.price, r.deviation_from_1, t)]

\* a function returns or raises: its locals are gone
Leave(p, position, error, result) ==
    /\ pc' = [pc EXCEPT ![p] = position]
    /\ exc' = [exc EXCEPT ![p] = error]
    /\ ret' = [ret EXCEPT ![p] = result]
    /\ df' = [df EXCEPT ![p] = <<>>]
    /\ call' = [call EXCEPT ![p] = NoCall]
    /\ idx' = [idx EXCEPT ![p] = 1]
    /\ all_data' = [all_data EXCEPT ![p] = <<>>]

(***************************************************************************)
(* load_real_chainlink_data                                                *)
(***************************************************************************)
RealStart(p) ==
    /\ pc[p] = "idle"
    /\ pc' = [pc EXCEPT ![p] = "connect"]
    /\ UNCHANGED <<now, warehouse, idx, all_data, df, exc, call, ret, loopvars, dashboard, ctas>>

\* the empty check, the renaming, connect() and write_pandas
RealWrite(p, limit) ==
    /\ pc[p] = "fetched"
    /\ IF df[p] = <<>>
       THEN /\ Leave(p, "done", "", [NoRet EXCEPT !.status = "empty"])
            /\ UNCHANGED warehouse
       ELSE \E outcome \in {"loaded", "failed", "raise"} :
              /\ outcome # "raise" => table_exists
              /\ CASE outcome = "loaded" ->
                        /\ Count(CHAINLINK_PRICES) + Len(df[p]) <= limit
                        /\ CHAINLINK_PRICES' =
                               AppendRows(CHAINLINK_PRICES, RealRows(df[p], now))
                        /\ pc' = [pc EXCEPT ![p] = "refresh_view"]
                        /\ call' = [call EXCEPT ![p] = NoCall]
                        /\ idx' = [idx EXCEPT ![p] = 1]
                        /\ all_data' = [all_data EXCEPT ![p] = <<>>]
                        /\ UNCHANGED <<table_exists, stablecoin_peg_health,
                                       stablecoin_peg_zscore, df, exc, ret>>
                   [] outcome = "failed" ->
                        /\ Leave(p, "done", "", [NoRet EXCEPT !.status = "failed"])
                        /\ UNCHANGED warehouse
                   [] outcome = "raise" ->
                        /\ Leave(p, "raised", "Exception", NoRet)
                        /\ UNCHANGED warehouse
    /\ UNCHANGED <<now, loopvars, dashboard, ctas>>

\* CREATE OR REPLACE VIEW stablecoin_peg_health AS ...
RealRefreshView(p) ==
    /\ pc[p] = "refresh_view"
    /\ stablecoin_peg_health' = "loader"
    /\ pc' = [pc EXCEPT ![p] = "refresh_zscore"]
    /\ UNCHANGED <<now, table_exists, CHAINLINK_PRICES, stablecoin_peg_zscore,
                   idx, all_data, df, exc, call, ret, loopvars, dashboard, ctas>>

\* CREATE OR REPLACE TABLE stablecoin_peg_zscore AS ...
RealRefreshZscore(p) ==
    /\ pc[p] = "refresh_zscore"
    /\ LET rows == ZscoreSelect(PegHealth(stablecoin_peg_health, CHAINLINK_PRICES))
       IN  IF StatementFails(rows)
           THEN /\ Leave(p, "raised", "DivisionByZero", NoRet)
                /\ UNCHANGED stablecoin_peg_zscore
           ELSE /\ stablecoin_peg_zscore' = [exists |-> TRUE, rows |-> rows]
                /\ pc' = [pc EXCEPT ![p] = "count"]
                /\ UNCHANGED <<idx, all_data, df, exc, call, ret>>
    /\ UNCHANGED <<now, table_exists, CHAINLINK_PRICES, stablecoin_peg_health, loopvars, dashboard, ctas>>

\* The same statement when other sessions commit while it runs.  The
\* warehouse runs its SELECT on the rows committed when the statement
\* began, and replaces the table when the statement ends.
RealZscoreBegin(p) ==
    /\ pc[p] = "refresh_zscore"
    /\ LET rows == ZscoreSelect(PegHealth(stablecoin_peg_health, CHAINLINK_PRICES))
       IN  IF StatementFails(rows)
           THEN /\ Leave(p, "raised", "DivisionByZero", NoRet)
                /\ ctas' = ctas
           ELSE /\ ctas' = [ctas EXCEPT ![p] = rows]
                /\ pc' = [pc EXCEPT ![p] = "zscore_running"]
                /\ UNCHANGED <<idx, all_data, df, exc, call, ret>>
    /\ UNCHANGED <<now, warehouse, loopvars, dashboard>>

RealZscoreEnd(p) ==
    /\ pc[p] = "zscore_running"
    /\ stablecoin_peg_zscore' = [exists |-> TRUE, rows |-> ctas[p]]
    /\ ctas' = [ctas EXCEPT ![p] = EmptyBag]
    /\ pc' = [pc EXCEPT ![p] = "count"]
    /\ UNCHANGED <<now, table_exists, CHAINLINK_PRICES, stablecoin_peg_health,
                   idx, all_data, df, exc, call, ret, loopvars, dashboard>>

\* SELECT COUNT(*) FROM CHAINLINK_PRICES, the prints, conn.close()
RealCount(p) ==
    /\ pc[p] = "count"
    /\ Leave(p, "done", "",
             [status |-> "loaded", rows |-> Len(df[p]),
              total_count |-> Count(CHAINLINK_PRICES)])
    /\ UNCHANGED <<now, warehouse, loopvars, dashboard, ctas>>

\* CREATE TABLE IF NOT EXISTS CHAINLINK_PRICES: the rows of the table after
\* the statement
CreateOrReplaceTable(exists, rows) == EmptyBag
CreateTableIfNotExists(exists, rows) == IF exists THEN rows ELSE EmptyBag

(***************************************************************************)
(* fetch_chainlink_price_op                                                *)
(***************************************************************************)
OpStart(p) ==
    /\ pc[p] = "idle"
    /\ pc' = [pc EXCEPT ![p] = "connect"]
    /\ UNCHANGED <<now, warehouse, idx, all_data, df, exc, call, ret, loopvars, dashboard, ctas>>

\* the empty check, the renaming, get_snowflake_connection() and
\* CREATE TABLE IF NOT EXISTS CHAINLINK_PRICES
OpCreateTable(p) ==
    /\ pc[p] = "fetched"
    /\ IF df[p] = <<>>
       THEN /\ Leave(p, "done", "", [NoRet EXCEPT !.status = "empty"])
            /\ UNCHANGED warehouse
       ELSE \E outcome \in {"ok", "raise"} :
              IF outcome = "ok"
              THEN /\ table_exists' = TRUE
                   /\ CHAINLINK_PRICES' =
                          CreateTableIfNotExists(table_exists, CHAINLINK_PRICES)
                   /\ pc' = [pc EXCEPT ![p] = "write"]
                   /\ call' = [call EXCEPT ![p] = NoCall]
                   /\ idx' = [idx EXCEPT ![p] = 1]
                   /\ all_data' = [all_data EXCEPT ![p] = <<>>]
                   /\ UNCHANGED <<stablecoin_peg_health,
                                  stablecoin_peg_zscore, df, exc, ret>>
              ELSE /\ Leave(p, "raised", "Exception", NoRet)
                   /\ UNCHANGED warehouse
    /\ UNCHANGED <<now, loopvars, dashboard, ctas>>

\* write_pandas and the returned Output
OpWrite(p, limit) ==
    /\ pc[p] = "write"
    /\ \E outcome \in {"loaded", "failed", "raise"} :
         CASE outcome = "loaded" ->
                /\ Count(CHAINLINK_PRICES) + Len(df[p]) <= limit
                /\ CHAINLINK_PRICES' = AppendRows(CHAINLINK_PRICES, OpRows(df[p], now))
                /\ Leave(p, "done", "",
                         [status |-> "success", rows |-> Len(df[p]), total_count |-> 0])
                /\ UNCHANGED <<table_exists, stablecoin_peg_health, stablecoin_peg_zscore>>
           [] outcome \in {"failed", "raise"} ->
                /\ Leave(p, "raised", "Exception", NoRet)
                /\ UNCHANGED warehouse
    /\ UNCHANGED <<now, loopvars, dashboard, ctas>>

(***************************************************************************)
(* setup_snowflake_schema: three statements                                *)
(***************************************************************************)
SetupCreateTable ==
    /\ pc["setup"] \in {"idle", "done"}
    /\ table_exists' = TRUE
    /\ CHAINLINK_PRICES' = CreateTableIfNotExists(table_exists, CHAINLINK_PRICES)
    /\ pc' = [pc EXCEPT !["setup"] = "create_view"]
    /\ UNCHANGED <<now, stablecoin_peg_health, stablecoin_peg_zscore,
                   idx, all_data, df, exc, call, ret, loopvars, dashboard, ctas>>

SetupCreateView ==
    /\ pc["setup"] = "create_view"
    /\ stablecoin_peg_health' = "setup"
    /\ pc' = [pc EXCEPT !["setup"] = "create_zscore"]
    /\ UNCHANGED <<now, table_exists, CHAINLINK_PRICES, stablecoin_peg_zscore,
                   idx, all_data, df, exc, call, ret, loopvars, dashboard, ctas>>

SetupCreateZscore ==
    /\ pc["setup"] = "create_zscore"
    /\ LET rows == ZscoreSelect(PegHealth(stablecoin_peg_health, CHAINLINK_PRICES))
       IN  IF StatementFails(rows)
           THEN /\ Leave("setup", "raised", "DivisionByZero", NoRet)
                /\ UNCHANGED stablecoin_peg_zscore
           ELSE /\ stablecoin_peg_zscore' = [exists |-> TRUE, rows |-> rows]
                /\ pc' = [pc EXCEPT !["setup"] = "done"]
                \* "All tables and views created successfully!"
                /\ ret' = [ret EXCEPT !["setup"] = [NoRet EXCEPT !.status = "created"]]
                /\ UNCHANGED <<idx, all_data, df, exc, call>>
    /\ UNCHANGED <<now, table_exists, CHAINLINK_PRICES, stablecoin_peg_health, loopvars, dashboard, ctas>>


(***************************************************************************)
(* fetch_continuously(interval_seconds)                                    *)
(***************************************************************************)
\* while True: fetch_count += 1; ...; load_real_chainlink_data()
LoopIterate ==
    /\ pc["loop"] = "loop_top"
    /\ fetch_count < MaxFetches
    /\ fetch_count' = fetch_count + 1
    /\ slept' = <<>>
    /\ pc' = [pc EXCEPT !["loop"] = "connect"]
    /\ exc' = [exc EXCEPT !["loop"] = ""]
    /\ ret' = [ret EXCEPT !["loop"] = NoRet]
    /\ call' = [call EXCEPT !["loop"] = NoCall]
    /\ idx' = [idx EXCEPT !["loop"] = 1]
    /\ all_data' = [all_data EXCEPT !["loop"] = <<>>]
    /\ UNCHANGED <<now, warehouse, df, interval_seconds, failures, interrupts,
                   dashboard, ctas>>

SleepAfterFetch(interval, failed) == interval
SleepBackoff(interval, failed) == interval * (failed + 1)
SleepAfterError(interval, failed) == interval

\* the load returned: print, then time.sleep(interval_seconds) begins
LoopWait ==
    /\ pc["loop"] = "done"
    /\ slept' = Append(slept, SleepAfterFetch(interval_seconds, failures))
    /\ failures' = 0
    /\ pc' = [pc EXCEPT !["loop"] = "sleeping"]
    /\ UNCHANGED <<now, warehouse, idx, all_data, df, exc, call, ret,
                   fetch_count, interval_seconds, interrupts, dashboard, ctas>>

\* except Exception: print, then time.sleep(interval_seconds) begins
LoopRetry ==
    /\ pc["loop"] = "raised"
    /\ slept' = Append(slept, SleepAfterError(interval_seconds, failures))
    /\ failures' = failures + 1
    /\ pc' = [pc EXCEPT !["loop"] = "sleeping"]
    /\ UNCHANGED <<now, warehouse, idx, all_data, df, exc, call, ret,
                   fetch_count, interval_seconds, interrupts, dashboard, ctas>>

\* time.sleep returns
LoopWake ==
    /\ pc["loop"] = "sleeping"
    /\ now' = now + slept[Len(slept)]
    /\ pc' = [pc EXCEPT !["loop"] = "loop_top"]
    /\ UNCHANGED <<warehouse, idx, all_data, df, exc, call, ret, loopvars, dashboard, ctas>>

\* Ctrl+C, in the load or in a sleep.  It is re-raised by the inner handler
\* and caught by the outer one, which prints and returns; unless it arrives
\* while get_web3_connection is in its first try block (import streamlit,
\* st.secrets), whose bare "except: pass" swallows it: the connection
\* attempt then goes on as if nothing had happened.
KeyboardInterrupt ==
    /\ pc["loop"] \notin {"off", "stopped"}
    /\ interrupts < MaxInterrupts
    /\ interrupts' = interrupts + 1
    /\ \/ Leave("loop", "stopped", "KeyboardInterrupt", NoRet)
       \/ /\ pc["loop"] = "connect"
          /\ UNCHANGED <<pc, idx, all_data, df, exc, call, ret>>
    /\ UNCHANGED <<now, warehouse, fetch_count, interval_seconds, slept, failures,
                   dashboard, ctas>>

(***************************************************************************)
(* streamlit_app/app.py: the two pages of the dashboard.                   *)
(***************************************************************************)
\* nothing rendered yet
NoDashboard == [page |-> "", token_filter |-> "", message |-> "",
                df |-> <<>>, latest |-> <<>>, display_df |-> <<>>]

\* the sidebar's token selector; "" stands for None (both are false in
\* "if token:")
SelectedTokens == {"All", "USDC", "USDT"}
TokenFilter(selected_token) == IF selected_token = "All" THEN "" ELSE selected_token

PegHealthLimit == 1000      \* load_peg_health_data: LIMIT 1000
ZscoreLimit == 5000         \* load_zscore_data: LIMIT 5000
HeadRows == 50              \* Recent Price Updates: .head(50)

\* pd.to_datetime(timestamp, unit='s'): the day since the epoch and the
\* second of that day
to_datetime(t) == [day |-> t \div 86400, second |-> t % 86400]
DatetimeLess(a, b) == a.day < b.day \/ (a.day = b.day /\ a.second < b.second)

\* .dt.strftime('%Y-%m-%d %H:%M:%S'), for a datetime of January 1970
strftime(dt) ==
    [Y |-> 1970, m |-> 1, d |-> dt.day + 1, H |-> dt.second \div 3600,
     M |-> (dt.second % 3600) \div 60, S |-> dt.second % 60]

\* Neither ORDER BY TIMESTAMP nor sort_values('datetime') says which of two
\* rows of one instant comes first: either order of their other columns may.
TieBreaks == {"forward", "backward"}
TieBefore(token1, price1, token2, price2, tie) ==
    LET before == \/ (token1 # token2 /\ SymbolLeq(token1, token2))
                  \/ (token1 = token2 /\ price1 < price2)
    IN  IF tie = "forward" THEN before ELSE ~before

\* ORDER BY TIMESTAMP DESC: the rows of the bag B, latest first
RECURSIVE OrderByTimestampDesc(_, _)
OrderByTimestampDesc(B, tie) ==
    IF DOMAIN B = {} THEN <<>>
    ELSE LET first == CHOOSE r \in DOMAIN B : \A x \in DOMAIN B :
                          \/ x = r
                          \/ r.TIMESTAMP > x.TIMESTAMP
                          \/ /\ r.TIMESTAMP = x.TIMESTAMP
                             /\ TieBefore(r.TOKEN, r.PRICE, x.TOKEN, x.PRICE, tie)
         IN  <<first>> \o OrderByTimestampDesc(B (-) SetToBag({first}), tie)

\* LIMIT n
Limit(rows, n) == SubSeq(rows, 1, IF Len(rows) < n THEN Len(rows) ELSE n)

\* WHERE TOKEN = '{token}', added to the query when a token is selected
WhereToken(B, token) ==
    IF token = "" THEN B ELSE Where(B, {r \in DOMAIN B : r.TOKEN = token})

\* df.sort_values('datetime'): the rows of the frame, earliest first
RECURSIVE SortByDatetime(_, _)
SortByDatetime(B, tie) ==
    IF DOMAIN B = {} THEN <<>>
    ELSE LET first == CHOOSE r \in DOMAIN B : \A x \in DOMAIN B :
                          \/ x = r
                          \/ DatetimeLess(r.datetime, x.datetime)
                          \/ /\ r.datetime = x.datetime
                             /\ TieBefore(r.token, r.price, x.token, x.price, tie)
         IN  <<first>> \o SortByDatetime(B (-) SetToBag({first}), tie)


\* load_peg_health_data(token): the query, then the lower-case columns, the
\* datetime column and the sort; an empty frame when there is no connection
\* or the query fails
load_peg_health_data(token, connected, tie, sort_tie) ==
    IF ~connected \/ stablecoin_peg_health = "none" THEN <<>>
    ELSE LET view == PegHealth(stablecoin_peg_health, CHAINLINK_PRICES)
             selected == Select(view, [r \in DOMAIN view |->
                            [TIMESTAMP |-> r.TIMESTAMP, TOKEN |-> r.TOKEN,
                             PRICE |-> r.PRICE,
                             DEVIATION_FROM_PEG |-> r.DEVIATION_FROM_PEG,
                             DEVIATION_FROM_PEG_PCT |-> r.DEVIATION_FROM_PEG_PCT,
                             PEG_STATUS |-> r.PEG_STATUS]])
             rows == Limit(OrderByTimestampDesc(WhereToken(selected, token), tie),
                           PegHealthLimit)
             frame == [i \in 1..Len(rows) |->
                         [timestamp |-> rows[i].TIMESTAMP, token |-> rows[i].TOKEN,
                          price |-> rows[i].PRICE,
                          deviation_from_peg |-> rows[i].DEVIATION_FROM_PEG,
                          deviation_from_peg_pct |-> rows[i].DEVIATION_FROM_PEG_PCT,
                          peg_status |-> rows[i].PEG_STATUS,
                          datetime |-> to_datetime(rows[i].TIMESTAMP)]]
         IN  SortByDatetime(SeqToBag(frame), sort_tie)

\* load_zscore_data(token): the query, then the lower-case columns and the
\* datetime column; the frame keeps the order of the query
load_zscore_data(token, connected, tie) ==
    IF ~connected \/ ~stablecoin_peg_zscore.exists THEN <<>>
    ELSE LET rows == Limit(OrderByTimestampDesc(
                               WhereToken(stablecoin_peg_zscore.rows, token), tie),
                           ZscoreLimit)
         IN  [i \in 1..Len(rows) |->
                [timestamp |-> rows[i].TIMESTAMP, token |-> rows[i].TOKEN,
                 price |-> rows[i].PRICE,
                 deviation_from_peg |-> rows[i].DEVIATION_FROM_PEG,
                 rolling_mean_24h |-> rows[i].ROLLING_MEAN_24H,
                 rolling_stddev_24h |-> rows[i].ROLLING_STDDEV_24H,
                 zscore |-> rows[i].ZSCORE,
                 zscore_status |-> rows[i].ZSCORE_STATUS,
                 datetime |-> to_datetime(rows[i].TIMESTAMP)]]

\* df[df['token'] != 'DAI']
WithoutDAI(frame) == SelectSeq(frame, LAMBDA r : r.token # "DAI")

\* df.pivot(index='datetime', columns='token', ...) raises ValueError when
\* two rows share a datetime and a token
PivotRaises(frame) ==
    \E i, j \in 1..Len(frame) :
        i # j /\ frame[i].datetime = frame[j].datetime /\ frame[i].token = frame[j].token

\* the table under "Recent Price Updates"
display_df(df_peg) ==
    LET head == Limit(df_peg, HeadRows)
    IN  [i \in 1..Len(head) |->
            [Timestamp |-> strftime(head[i].datetime), Token |-> head[i].token,
             Price |-> head[i].price,
             DeviationPct |-> head[i].deviation_from_peg_pct,
             Status |-> head[i].peg_status]]

\* Page 1, rendered with a token or "All" selected in the sidebar
PegDeviationPage ==
    /\ \E selected_token \in SelectedTokens, connected \in BOOLEAN,
          tie \in TieBreaks, sort_tie \in TieBreaks :
         LET token_filter == TokenFilter(selected_token)
             loaded == load_peg_health_data(token_filter, connected, tie, sort_tie)
             df_peg == WithoutDAI(loaded)
             page == [NoDashboard EXCEPT !.page = "Peg Deviation",
                                         !.token_filter = token_filter]
         IN  dashboard' =
               IF loaded = <<>> THEN [page EXCEPT !.message = "warning"]
               ELSE IF token_filter = "" /\ PivotRaises(df_peg)
               THEN [page EXCEPT !.message = "ValueError", !.df = df_peg]
               ELSE [page EXCEPT
                        !.df = df_peg,
                        !.latest = IF token_filter # ""
                                   THEN <<df_peg[Len(df_peg)]>> ELSE <<>>,
                        !.display_df = display_df(df_peg)]
    /\ UNCHANGED <<now, warehouse, pc, idx, all_data, df, exc, call, ret, loopvars,
                   ctas>>

\* Page 2, rendered with a token or "All" selected in the sidebar
PegZscorePage ==
    /\ \E selected_token \in SelectedTokens, connected \in BOOLEAN,
          tie \in TieBreaks :
         LET token_filter == TokenFilter(selected_token)
             loaded == load_zscore_data(token_filter, connected, tie)
             df_zscore == WithoutDAI(loaded)
             mine == SelectSeq(df_zscore, LAMBDA r : r.token = token_filter)
             page == [NoDashboard EXCEPT !.page = "Peg Z-Score",
                                         !.token_filter = token_filter]
         IN  dashboard' =
               IF loaded = <<>> THEN [page EXCEPT !.message = "warning"]
               ELSE [page EXCEPT
                        !.df = df_zscore,
                        \* df_zscore[df_zscore['token'] == token_filter].iloc[-1]
                        !.latest = IF token_filter # ""
                                   THEN <<mine[Len(mine)]>> ELSE <<>>]
    /\ UNCHANGED <<now, warehouse, pc, idx, all_data, df, exc, call, ret, loopvars,
                   ctas>>

(***************************************************************************)
(* Initial states and specifications.                                      *)
(***************************************************************************)
NoZscore == [exists |-> FALSE, rows |-> EmptyBag]

InitLocals ==
    /\ idx = [p \in FetchProcs |-> 1]
    /\ all_data = [p \in FetchProcs |-> <<>>]
    /\ df = [p \in Procs |-> <<>>]
    /\ exc = [p \in Procs |-> ""]
    /\ call = [p \in Procs |-> NoCall]
    /\ ret = [p \in Procs |-> NoRet]
    /\ fetch_count = 0
    /\ slept = <<>>
    /\ failures = 0
    /\ interrupts = 0
    /\ dashboard = NoDashboard
    /\ ctas = [p \in RealProcs |-> EmptyBag]

InitEmptyWarehouse ==
    /\ table_exists = FALSE
    /\ CHAINLINK_PRICES = EmptyBag
    /\ stablecoin_peg_health = "none"
    /\ stablecoin_peg_zscore = NoZscore

\* a loader, the scheduled op and the set-up script, run against a new
\* warehouse
DecimalsReplies == {Returned(4)}
RoundReplies == {Raised, Returned(PEG), Returned(PEG + 11)}
Instants == {0, 1}

Init ==
    /\ now = 0
    /\ InitEmptyWarehouse
    /\ InitLocals
    /\ interval_seconds = 60
    /\ pc = [p \in Procs |-> IF p \in {"real1", "op", "setup"} THEN "idle" ELSE "off"]

Next ==
    \/ Tick(Instants)
    \/ RealStart("real1")
    \/ \E p \in {"real1", "op"} : Connect(p)
    \/ \E p \in {"real1", "op"} : FetchToken(p, DecimalsReplies, RoundReplies)
    \/ RealWrite("real1", MaxRows)
    \/ RealRefreshView("real1")
    \/ RealRefreshZscore("real1")
    \/ RealCount("real1")
    \/ OpStart("op")
    \/ OpCreateTable("op")
    \/ OpWrite("op", MaxRows)
    \/ SetupCreateTable
    \/ SetupCreateView
    \/ SetupCreateZscore

Spec == Init /\ [][Next]_vars


\* one loader and the set-up script, over the oracle's whole range of replies
DecimalsWide == {Raised, Returned(3), Returned(4)}
RoundWide == Replies({-1, 0, 999, 1005, 9949, 9950, 9989, 10000, 10010, 10011, 10051})

InitWide ==
    /\ now = 0
    /\ InitEmptyWarehouse
    /\ InitLocals
    /\ interval_seconds = 60
    /\ pc = [p \in Procs |-> IF p \in {"real1", "setup"} THEN "idle" ELSE "off"]

NextWide ==
    \/ Tick(Instants)
    \/ RealStart("real1")
    \/ Connect("real1")
    \/ FetchToken("real1", DecimalsWide, RoundWide)
    \/ RealWrite("real1", MaxRows)
    \/ RealRefreshView("real1")
    \/ RealRefreshZscore("real1")
    \/ RealCount("real1")
    \/ SetupCreateTable
    \/ SetupCreateView
    \/ SetupCreateZscore

SpecWide == InitWide /\ [][NextWide]_vars


\* a loader and the set-up script over a table that runs of the op have
\* filled: samples of both tokens, a day and a second apart
StatRows ==
    {Row(0, "USDC", PEG + 1, 1, 0),
     Row(1, "USDC", PEG - 1, -1, 1),
     Row(1, "USDC", PEG, 0, 1),
     Row(1, "USDC", PEG + 1, 1, 1),
     Row(WINDOW_SECONDS + 1, "USDC", PEG, 0, WINDOW_SECONDS + 1),
     Row(WINDOW_SECONDS + 1, "USDC", PEG + 1, 1, WINDOW_SECONDS + 1),
     Row(1, "USDT", PEG + 1, 1, 1)}

RECURSIVE BagsUpTo(_, _)
BagsUpTo(rows, k) ==
    IF k = 0 THEN {EmptyBag}
    ELSE LET smaller == BagsUpTo(rows, k - 1)
         IN  smaller \cup {b (+) SetToBag({r}) : b \in smaller, r \in rows}

InitStats ==
    /\ now = WINDOW_SECONDS + 1
    /\ table_exists = TRUE
    /\ CHAINLINK_PRICES \in BagsUpTo(StatRows, MaxStatRows - 1)
    /\ stablecoin_peg_health = "none"
    /\ stablecoin_peg_zscore = NoZscore
    /\ exc = [p \in Procs |-> ""]
    /\ ret = [p \in Procs |-> NoRet]
    /\ fetch_count = 0
    /\ slept = <<>>
    /\ failures = 0
    /\ interrupts = 0
    /\ dashboard = NoDashboard
    /\ ctas = [p \in RealProcs |-> EmptyBag]
    /\ interval_seconds = 60
    /\ pc = [p \in Procs |-> IF p = "real1" THEN "fetched"
                             ELSE IF p = "setup" THEN "idle" ELSE "off"]
    \* real1 has fetched USDC; its fetch of USDT failed
    /\ \E answer \in {PEG, PEG + 1} :
         LET sample == fetch_token_price("USDC", Returned(4), Returned(answer), now)
         IN  /\ all_data = [p \in FetchProcs |-> IF p = "real1" THEN <<sample>> ELSE <<>>]
             /\ df = [p \in Procs |-> IF p = "real1" THEN DataFrame(<<sample>>) ELSE <<>>]
    /\ idx = [p \in FetchProcs |-> IF p = "real1" THEN Len(TOKEN_SYMBOLS) + 1 ELSE 1]
    /\ call = [p \in Procs |->
                 IF p = "real1"
                 THEN [token_symbol |-> "USDT", decimals |-> Raised,
                       round_data |-> Raised,
                       result |-> fetch_token_price("USDT", Raised, Raised, now)]
                 ELSE NoCall]

NextStats ==
    \/ RealWrite("real1", MaxStatRows)
    \/ RealRefreshView("real1")
    \/ RealRefreshZscore("real1")
    \/ RealCount("real1")
    \/ SetupCreateTable
    \/ SetupCreateView
    \/ SetupCreateZscore

SpecStats == InitStats /\ [][NextStats]_vars

\* the set-up script alone, run again and again, over a warehouse in any
\* state the other programs can leave it in: new; prepared and still empty;
\* loaded by the op, its z-score table missing or stale; loaded and
\* refreshed by load_real_chainlink_data
InitSetup ==
    /\ now = WINDOW_SECONDS + 1
    /\ InitLocals
    /\ interval_seconds = 60
    /\ pc = [p \in Procs |-> IF p = "setup" THEN "idle" ELSE "off"]
    /\ table_exists \in BOOLEAN
    /\ IF table_exists
       THEN /\ CHAINLINK_PRICES \in BagsUpTo(StatRows, MaxRows)
            /\ stablecoin_peg_health \in {"none", "setup", "loader"}
       ELSE /\ CHAINLINK_PRICES = EmptyBag
            /\ stablecoin_peg_health = "none"
    /\ \/ stablecoin_peg_zscore = NoZscore
       \/ /\ stablecoin_peg_health # "none"
          /\ \E old \in {EmptyBag, CHAINLINK_PRICES} :
                stablecoin_peg_zscore =
                    [exists |-> TRUE,
                     rows |-> ZscoreSelect(PegHealth(stablecoin_peg_health, old))]

NextSetup ==
    \/ SetupCreateTable
    \/ SetupCreateView
    \/ SetupCreateZscore

SpecSetup == InitSetup /\ [][NextSetup]_vars

\* the dashboard over a warehouse that the loaders have filled: a few
\* samples of both tokens, or a minute of one sample a second; the z-score
\* table current, or as the set-up script left it before the op loaded
MaxSeries == 52

Series(n) ==
    SetToBag({Row(k, "USDC", PEG + (k % 2), k % 2, k) : k \in 1..n})

InitDashboard ==
    /\ now = WINDOW_SECONDS + 1
    /\ InitLocals
    /\ interval_seconds = 60
    /\ pc = [p \in Procs |-> IF p = "setup" THEN "done" ELSE "off"]
    /\ table_exists = TRUE
    /\ CHAINLINK_PRICES \in BagsUpTo(StatRows, MaxRows - 1)
                            \cup {Series(n) : n \in (HeadRows - 1)..MaxSeries}
    /\ stablecoin_peg_health \in {"setup", "loader"}
    /\ \E old \in {EmptyBag, CHAINLINK_PRICES} :
          stablecoin_peg_zscore =
              [exists |-> TRUE,
               rows |-> ZscoreSelect(PegHealth(stablecoin_peg_health, old))]

NextDashboard ==
    \/ PegDeviationPage
    \/ PegZscorePage

SpecDashboard == InitDashboard /\ [][NextDashboard]_vars

\* two runs of load_real_chainlink_data, started from two terminals, that
\* have both fetched a USDC sample (their USDT fetches failed) and are about
\* to load it into a warehouse whose z-score table is up to date
InitRace ==
    /\ now = 1
    /\ table_exists = TRUE
    /\ CHAINLINK_PRICES \in {EmptyBag, SetToBag({Row(0, "USDC", PEG + 1, 1, 0)})}
    /\ stablecoin_peg_health = "setup"
    /\ stablecoin_peg_zscore =
           [exists |-> TRUE,
            rows |-> ZscoreSelect(PegHealth("setup", CHAINLINK_PRICES))]
    /\ exc = [p \in Procs |-> ""]
    /\ ret = [p \in Procs |-> NoRet]
    /\ fetch_count = 0
    /\ slept = <<>>
    /\ failures = 0
    /\ interrupts = 0
    /\ dashboard = NoDashboard
    /\ ctas = [p \in RealProcs |-> EmptyBag]
    /\ interval_seconds = 60
    /\ pc = [p \in Procs |-> IF p \in {"real1", "real2"} THEN "fetched"
                             ELSE IF p = "setup" THEN "done" ELSE "off"]
    /\ \E answer1, answer2 \in {PEG, PEG + 11} :
         LET sample(p) == fetch_token_price("USDC", Returned(4),
                              Returned(IF p = "real1" THEN answer1 ELSE answer2), now)
             running(p) == p \in {"real1", "real2"}
         IN  /\ all_data = [p \in FetchProcs |->
                              IF running(p) THEN <<sample(p)>> ELSE <<>>]
             /\ df = [p \in Procs |->
                        IF running(p) THEN DataFrame(<<sample(p)>>) ELSE <<>>]
    /\ idx = [p \in FetchProcs |->
                IF p \in {"real1", "real2"} THEN Len(TOKEN_SYMBOLS) + 1 ELSE 1]
    /\ call = [p \in Procs |->
                 IF p \in {"real1", "real2"}
                 THEN [token_symbol |-> "USDT", decimals |-> Raised,
                       round_data |-> Raised,
                       result |-> fetch_token_price("USDT", Raised, Raised, now)]
                 ELSE NoCall]

NextRace ==
    \E p \in {"real1", "real2"} :
        \/ RealWrite(p, MaxRows)
        \/ RealRefreshView(p)
        \/ RealRefreshZscore(p)
        \/ RealZscoreBegin(p)
        \/ RealZscoreEnd(p)
        \/ RealCount(p)

SpecRace == InitRace /\ [][NextRace]_vars

\* fetch_continuously over a warehouse the set-up script has prepared
Intervals == {1, 60}

InitLoop ==
    /\ now = 0
    /\ table_exists = TRUE
    /\ CHAINLINK_PRICES = EmptyBag
    /\ stablecoin_peg_health = "setup"
    /\ stablecoin_peg_zscore =
           [exists |-> TRUE, rows |-> ZscoreSelect(PegHealth("setup", EmptyBag))]
    /\ InitLocals
    /\ interval_seconds \in Intervals
    /\ pc = [p \in Procs |-> IF p = "loop" THEN "loop_top"
                             ELSE IF p = "setup" THEN "done" ELSE "off"]

NextLoop ==
    \/ LoopIterate
    \/ Connect("loop")
    \/ FetchToken("loop", DecimalsReplies, RoundReplies)
    \/ RealWrite("loop", MaxRows)
    \/ RealRefreshView("loop")
    \/ RealRefreshZscore("loop")
    \/ RealCount("loop")
    \/ LoopWait
    \/ LoopRetry
    \/ LoopWake
    \/ KeyboardInterrupt

SpecLoop == InitLoop /\ [][NextLoop]_vars

(***************************************************************************)
(* The claims.                                                             *)
(***************************************************************************)
Loaders == RealProcs \cup OpProcs

\* p's step is the one in which its write_pandas call loaded df[p]
Loaded(p) ==
    \/ p \in RealProcs /\ pc[p] = "fetched" /\ pc'[p] = "refresh_view"
    \/ p \in OpProcs /\ pc[p] = "write" /\ pc'[p] = "done"

SameKey(r1, r2) == r1.TIMESTAMP = r2.TIMESTAMP /\ r1.TOKEN = r2.TOKEN

\* C1 as stated: CHAINLINK_PRICES holds at most one row for every
\* (TIMESTAMP, TOKEN) pair, whatever loads have run.
C1_OneRowPerKey ==
    \A r1 \in DOMAIN CHAINLINK_PRICES :
        /\ CHAINLINK_PRICES[r1] = 1
        /\ \A r2 \in DOMAIN CHAINLINK_PRICES : SameKey(r1, r2) => r1 = r2

\* C1 as amended: a load is an append.  Each successful load adds exactly
\* one row for every fetched sample and removes none, whether or not the
\* sample's (TIMESTAMP, TOKEN) pair is already present; the samples of one
\* load have different tokens.
C1_LoadAppends ==
    [][\A p \in Loaders :
         Loaded(p) =>
           /\ Count(CHAINLINK_PRICES') = Count(CHAINLINK_PRICES) + Len(df[p])
           /\ \A r \in DOMAIN CHAINLINK_PRICES :
                CopiesIn(r, CHAINLINK_PRICES') >= CHAINLINK_PRICES[r]
           /\ \A i \in 1..Len(df[p]) :
                /\ \E r \in DOMAIN CHAINLINK_PRICES' :
                     /\ r.TIMESTAMP = df[p][i].timestamp
                     /\ r.TOKEN = df[p][i].token_symbol
                     /\ r.PRICE = df[p][i].price
                     /\ r.LOADED_AT = now
                     /\ CHAINLINK_PRICES'[r] = CopiesIn(r, CHAINLINK_PRICES) + 1
                /\ \A j \in 1..Len(df[p]) :
                     i # j => df[p][i].token_symbol # df[p][j].token_symbol]_vars

\* a pair that was already present has been loaded again: it has two rows
C1_Witness ==
    \E r1, r2 \in DOMAIN CHAINLINK_PRICES :
        SameKey(r1, r2) /\ (r1 # r2 \/ CHAINLINK_PRICES[r1] >= 2)

\* C2 as stated: when a loader that stored rows finishes, the table
\* stablecoin_peg_zscore exists and holds one row for every row of
\* CHAINLINK_PRICES.
C2_DerivedAfterEveryLoad ==
    [][\A p \in Loaders :
         (pc[p] # "done" /\ pc'[p] = "done" /\ ret'[p].status \in {"loaded", "success"})
         => /\ stablecoin_peg_zscore'.exists
            /\ Count(stablecoin_peg_zscore'.rows) = Count(CHAINLINK_PRICES')
            /\ \A r \in DOMAIN CHAINLINK_PRICES' :
                 \E z \in DOMAIN stablecoin_peg_zscore'.rows :
                     SameKey(r, z) /\ r.PRICE = z.PRICE]_vars

\* C3: once connected, fetch_all_chainlink_prices raises RuntimeError exactly
\* when no token yielded price data, and otherwise returns a DataFrame that
\* is not empty.
C3_RaisesIffNoData ==
    [][\A p \in FetchProcs :
         (pc[p] = "fetch" /\ pc'[p] \in {"fetched", "raised"}) =>
           LET yielded == all_data[p] # <<>> \/ ~call'[p].result.none
           IN  /\ (pc'[p] = "raised" /\ exc'[p] = "RuntimeError") <=> ~yielded
               /\ yielded => (pc'[p] = "fetched" /\ exc'[p] = "" /\ df'[p] # <<>>)]_vars

\* fetch_all_chainlink_prices has returned the data of the one token that
\* yielded any, the other fetch having failed
C3_Witness ==
    /\ pc["real1"] = "fetched"
    /\ Len(df["real1"]) = 1
    /\ call["real1"].result.none

\* C4: a returned DataFrame has at most one row for each token, every
\* token_symbol is USDC or USDT, and USDC comes before USDT.
C4_RowsSortedByToken ==
    \A p \in FetchProcs :
        pc[p] = "fetched" =>
          /\ Len(df[p]) <= 2
          /\ \A i \in 1..Len(df[p]) : df[p][i].token_symbol \in {"USDC", "USDT"}
          /\ \A i, j \in 1..Len(df[p]) :
               i < j => (df[p][i].token_symbol = "USDC" /\ df[p][j].token_symbol = "USDT")

C4_Witness ==
    /\ pc["real1"] = "fetched"
    /\ Len(df["real1"]) = 2

C6_DeviationIsPriceMinusPeg ==
    /\ \A p \in FetchProcs :
         /\ ~call[p].result.none =>
              call[p].result.deviation_from_peg = call[p].result.price - PriceScale
         /\ \A i \in 1..Len(df[p]) :
              df[p][i].deviation_from_peg = df[p][i].price - PriceScale
    /\ \A r \in DOMAIN CHAINLINK_PRICES : r.DEVIATION_FROM_1 = r.PRICE - PriceScale
    /\ stablecoin_peg_health # "none" =>
         \A v \in DOMAIN PegHealth(stablecoin_peg_health, CHAINLINK_PRICES) :
             \A r \in DOMAIN CHAINLINK_PRICES :
                 (SameKey(v, r) /\ v.PRICE = r.PRICE /\ v.LOADED_AT = r.LOADED_AT)
                 => v.DEVIATION_FROM_PEG = r.DEVIATION_FROM_1

\* both loaders have stored a row off the peg and the view is defined
C6_Witness ==
    /\ stablecoin_peg_health # "none"
    /\ pc["real1"] = "done" /\ ret["real1"].status = "loaded"
    /\ pc["op"] = "done" /\ ret["op"].status = "success"
    /\ \A r \in DOMAIN CHAINLINK_PRICES : r.DEVIATION_FROM_1 # 0

\* C7: PEG_STATUS is 'healthy' iff |PRICE - 1| <= 0.001, 'warning' iff
\* 0.001 < |PRICE - 1| <= 0.005 and 'critical' iff |PRICE - 1| > 0.005, and
\* the view's two definitions give every row the same status.
C7_PegStatusThresholds ==
    /\ stablecoin_peg_health # "none" =>
         \A v \in DOMAIN PegHealth(stablecoin_peg_health, CHAINLINK_PRICES) :
             LET d == IF v.PRICE >= PriceScale THEN v.PRICE - PriceScale
                      ELSE PriceScale - v.PRICE
             IN  /\ v.PEG_STATUS \in {"healthy", "warning", "critical"}
                 /\ v.PEG_STATUS = "healthy" <=> 1000 * d <= PriceScale
                 /\ v.PEG_STATUS = "warning" <=>
                      (1000 * d > PriceScale /\ 1000 * d <= 5 * PriceScale)
                 /\ v.PEG_STATUS = "critical" <=> 1000 * d > 5 * PriceScale
    /\ \A r \in DOMAIN CHAINLINK_PRICES :
         PegHealthRowSetup(r) = PegHealthRowLoader(r)

\* the loader's definition of the view is in force over a row exactly
\* 0.001 below the peg and a row just over 0.005 above it
C7_Witness ==
    /\ stablecoin_peg_health = "loader"
    /\ \E r \in DOMAIN CHAINLINK_PRICES : r.PRICE = PriceScale - 10
    /\ \E r \in DOMAIN CHAINLINK_PRICES : r.PRICE = PriceScale + 51


\* the rows of stablecoin_peg_zscore in the 24-hour window of its row z
WindowOf(z) ==
    LET rows == stablecoin_peg_zscore.rows
    IN  {w \in DOMAIN rows : /\ w.TOKEN = z.TOKEN
                             /\ w.TIMESTAMP >= z.TIMESTAMP - 86400
                             /\ w.TIMESTAMP <= z.TIMESTAMP}

\* C8: ROLLING_MEAN_24H of a row is the mean of DEVIATION_FROM_PEG over
\* exactly the rows of its token with a timestamp in [t - 86400, t]: these
\* rows, the row itself among them, and no others.
C8_RollingMeanWindow ==
    stablecoin_peg_zscore.exists =>
      \A z \in DOMAIN stablecoin_peg_zscore.rows :
          LET rows == stablecoin_peg_zscore.rows
              window == WindowOf(z)
              cnt == BagSum(rows, window, [w \in window |-> 1])
              sum == BagSum(rows, window, [w \in window |-> w.DEVIATION_FROM_PEG])
          IN  /\ z \in window
              /\ z.ROLLING_MEAN_24H.den = cnt
              /\ z.ROLLING_MEAN_24H.num = sum

\* a row whose window leaves out an older row of its token and the rows of
\* the other token, and takes in the row exactly 86400 seconds before it
C8_Witness ==
    /\ stablecoin_peg_zscore.exists
    /\ \E z, old, edge, other \in DOMAIN stablecoin_peg_zscore.rows :
         /\ z.TOKEN = "USDC" /\ z.TIMESTAMP = 86401
         /\ old.TOKEN = "USDC" /\ old.TIMESTAMP = 0 /\ old.DEVIATION_FROM_PEG # 0
         /\ edge.TOKEN = "USDC" /\ edge.TIMESTAMP = 1
         /\ other.TOKEN = "USDT" /\ other.DEVIATION_FROM_PEG # 0
         /\ z.ROLLING_MEAN_24H.den >= 3

\* C9: ZSCORE_STATUS is 'outlier' iff |ZSCORE| > 2, 'unusual' iff
\* 1 < |ZSCORE| <= 2 and 'normal' otherwise; where the rolling standard
\* deviation is 0 or NULL, ZSCORE is 0 and the status 'normal'; and no
\* statement fails with a division by zero.
C9_ZscoreStatusAgrees ==
    /\ \A p \in Procs : exc[p] # "DivisionByZero"
    /\ stablecoin_peg_zscore.exists =>
         \A z \in DOMAIN stablecoin_peg_zscore.rows :
             LET over2 == z.ZSCORE.s # 0 /\ z.ZSCORE.n > 4 * z.ZSCORE.d
                 over1 == z.ZSCORE.s # 0 /\ z.ZSCORE.n > z.ZSCORE.d
                 sd == z.ROLLING_STDDEV_24H
             IN  /\ ~z.ZSCORE.null /\ ~z.ZSCORE.err
                 /\ z.ZSCORE_STATUS = "outlier" <=> over2
                 /\ z.ZSCORE_STATUS = "unusual" <=> (over1 /\ ~over2)
                 /\ z.ZSCORE_STATUS = "normal" <=> ~over1
                 /\ (sd.null \/ sd.s = 0) =>
                      (z.ZSCORE = Zero /\ z.ZSCORE_STATUS = "normal")

\* the table holds an outlier, and a row whose window has two rows or more
\* and a standard deviation of 0
C9_Witness ==
    /\ stablecoin_peg_zscore.exists
    /\ \E z \in DOMAIN stablecoin_peg_zscore.rows : z.ZSCORE_STATUS = "outlier"
    /\ \E z \in DOMAIN stablecoin_peg_zscore.rows :
         ~z.ROLLING_STDDEV_24H.null /\ z.ROLLING_STDDEV_24H.s = 0


\* C10: after a load that raised, as after one that returned, the loop
\* sleeps once, for interval_seconds, before the next attempt, however
\* many loads have failed in a row; only Ctrl+C stops it.
C10_OneSleepAfterFailure ==
    /\ pc["loop"] = "sleeping" => slept = <<interval_seconds>>
    /\ (pc["loop"] = "loop_top" /\ fetch_count >= 1) => slept = <<interval_seconds>>
    /\ pc["loop"] = "stopped" => exc["loop"] = "KeyboardInterrupt"
    /\ failures <= fetch_count

\* two loads in a row have raised and the loop is about to try again
C10_Witness ==
    /\ pc["loop"] = "loop_top"
    /\ failures >= 2
    /\ slept = <<interval_seconds>>
    /\ now = 2 * interval_seconds

\* C11 as stated: the loop stops only on a user interrupt, whatever the
\* outcome of a fetch, and every Ctrl+C, in a fetch or in a sleep, stops it:
\* the step that delivers it ends the loop, and no attempt starts afterwards.
C11_StopsOnlyOnInterrupt ==
    [][/\ (pc["loop"] # "stopped" /\ pc'["loop"] = "stopped")
            => interrupts' = interrupts + 1
       /\ interrupts' # interrupts => pc'["loop"] = "stopped"
       /\ pc["loop"] = "stopped"
            => (pc'["loop"] = "stopped" /\ fetch_count' = fetch_count)]_vars

\* C12: a run of setup_snowflake_schema removes and adds no row of
\* CHAINLINK_PRICES; when it has succeeded the table, the view and the
\* z-score table all exist; and a run that follows a successful run, with
\* no other program in between, changes nothing in the warehouse.
C12_SetupIdempotent ==
    [][pc'["setup"] # pc["setup"] =>
         /\ CHAINLINK_PRICES' = CHAINLINK_PRICES
         /\ pc'["setup"] = "done" =>
              /\ table_exists'
              /\ stablecoin_peg_health' # "none"
              /\ stablecoin_peg_zscore'.exists
              /\ Count(stablecoin_peg_zscore'.rows) = Count(CHAINLINK_PRICES)
         /\ ret["setup"].status = "created" => warehouse' = warehouse]_vars

\* a run has succeeded over a table that holds rows and a second run, begun
\* after it, has executed its first two statements
C12_Witness ==
    /\ pc["setup"] = "create_zscore"
    /\ ret["setup"].status = "created"
    /\ Count(CHAINLINK_PRICES) >= 2
    /\ stablecoin_peg_health = "setup"
    /\ Count(stablecoin_peg_zscore.rows) = Count(CHAINLINK_PRICES)

\* C13 as stated: with one token selected, the four metrics of the Peg
\* Z-Score page are those of a row that load_zscore_data loaded for the
\* token, and no row loaded for the token has a greater TIMESTAMP.
C13_CurrentIsLatestRow ==
    (dashboard.page = "Peg Z-Score" /\ dashboard.latest # <<>>) =>
        LET latest == dashboard.latest[1]
            mine == {i \in 1..Len(dashboard.df) :
                        dashboard.df[i].token = dashboard.token_filter}
        IN  /\ \E i \in mine : dashboard.df[i] = latest
            /\ \A i \in mine : dashboard.df[i].timestamp <= latest.timestamp

\* seconds since the epoch of a formatted January 1970 time
Seconds(text) == (text.d - 1) * 86400 + text.H * 3600 + text.M * 60 + text.S

\* C14 as stated: the table "Recent Price Updates" has 50 rows, or all the
\* loaded rows if they are fewer, and every loaded row that is later than
\* some row of the table is in the table.
C14_RecentAreLatestRows ==
    (dashboard.page = "Peg Deviation" /\ dashboard.display_df # <<>>) =>
        LET shown == dashboard.display_df
            loaded == dashboard.df
            LaterShown(t) == Cardinality({i \in 1..Len(shown) :
                                            Seconds(shown[i].Timestamp) > t})
            LaterLoaded(t) == Cardinality({i \in 1..Len(loaded) :
                                             loaded[i].timestamp > t})
        IN  /\ Len(shown) = IF Len(loaded) < 50 THEN Len(loaded) ELSE 50
            /\ \A i \in 1..Len(shown) :
                  LaterLoaded(Seconds(shown[i].Timestamp))
                      = LaterShown(Seconds(shown[i].Timestamp))

\* C15: a run of fetch_chainlink_price_op that succeeds has added one row
\* for each token it fetched, one or two in all, has removed and changed no
\* row, and reports status 'success' with rows equal to the number added;
\* no other step of the op touches the rows of CHAINLINK_PRICES.
C15_OpAppendsFetchedRows ==
    [][\A p \in OpProcs :
         LET added == Count(CHAINLINK_PRICES') - Count(CHAINLINK_PRICES)
             succeeds == pc'[p] = "done" /\ ret'[p].status = "success"
         IN  /\ (pc[p] # "done" /\ succeeds) =>
                  /\ added \in 1..2
                  /\ added = Len(df[p])
                  /\ ret'[p].rows = added
                  /\ \A r \in DOMAIN CHAINLINK_PRICES :
                        CopiesIn(r, CHAINLINK_PRICES') >= CHAINLINK_PRICES[r]
                  /\ \A i \in 1..Len(df[p]) :
                        /\ \E r \in DOMAIN CHAINLINK_PRICES' :
                             /\ r.TOKEN = df[p][i].token_symbol
                             /\ r.TIMESTAMP = df[p][i].timestamp
                             /\ r.PRICE = df[p][i].price
                             /\ CHAINLINK_PRICES'[r] > CopiesIn(r, CHAINLINK_PRICES)
                        /\ \A j \in 1..Len(df[p]) :
                             i # j => df[p][i].token_symbol # df[p][j].token_symbol
             /\ (pc'[p] # pc[p] /\ ~succeeds) => CHAINLINK_PRICES' = CHAINLINK_PRICES]_vars

\* the op has succeeded with both tokens fetched, on a table that already
\* held a row
C15_Witness ==
    /\ pc["op"] = "done"
    /\ ret["op"] = [status |-> "success", rows |-> 2, total_count |-> 0]
    /\ Count(CHAINLINK_PRICES) = 3

====
